---- MODULE Spec2Model ----
(***************************************************************************)
(* The crush/match REST backend.  The repository holds three variants of   *)
(* the server (crush-backend/server.js and two further server files); the  *)
(* variable `variant` says which one is deployed, and every route handler  *)
(* of every variant is one action.  The two MongoDB collections are the    *)
(* sequences `users` and `crushes` (insertion order = natural order of an  *)
(* unsorted find).  `req` is the request being served and `res` the        *)
(* response the handler produced for it.                                   *)
(***************************************************************************)
EXTENDS Integers, Sequences, FiniteSets, TLC

\* Bound of the model: how many documents the Crush collection may hold.  The
\* User collection is bounded by the usernames the clients send (unique index).
MaxCrushes == 2

\* Bound of the model: how many register requests may be in flight at once.
MaxPending == 2

VARIABLES
    variant,          \* which server file runs: "server", "part_000", "part_001"
    undefinedFilter,  \* how the driver treats {userId: undefined} in a filter
    users,            \* User collection: sequence of [id, username, password]
    crushes,          \* Crush collection: sequence of [name, userId]
    req,              \* the request served last
    res,              \* the response sent for it
    pending           \* register requests between their findOne and their save

vars == <<variant, undefinedFilter, users, crushes, req, res, pending>>

-----------------------------------------------------------------------------
(* JavaScript values.  A string is a sequence of one-character strings; the *)
(* value `undefined` (a missing body field) is a sequence no string equals. *)
(* An ObjectId is written as its string form; "0" is a well-formed ObjectId *)
(* that no document of the User collection carries.                         *)

undefined == <<"undefined">>
noId == "undefined"
unknownId == "0"

RECURSIVE trimStart(_)
trimStart(s) ==
    IF s # <<>> /\ Head(s) = " " THEN trimStart(Tail(s)) ELSE s

RECURSIVE trimEnd(_)
trimEnd(s) ==
    IF s # <<>> /\ s[Len(s)] = " " THEN trimEnd(SubSeq(s, 1, Len(s) - 1)) ELSE s

\* String.prototype.trim
trim(s) == trimEnd(trimStart(s))

\* !v for a body field holding a string or undefined
falsy(v) == v = undefined \/ v = <<>>

\* bcrypt.hash: one-way; bcrypt.compare(plain, hash) recomputes it
bcryptHash(password) == <<"$2b$10$">> \o password

bcryptCompare(password, hash) == hash = bcryptHash(password)

ObjectId(n) == ToString(n)

-----------------------------------------------------------------------------
(* The User model.  crush-backend/server.js and part_001 import it from     *)
(* ./models/User.js; the only definition of it in the sources is the inline *)
(* schema of part_000: username {required, unique, trim}, password          *)
(* {required}, and a pre-save hook that replaces the password by its hash.  *)

\* the trim setter of userSchema.username (also applied when a filter is cast)
userSchemaUsername(v) == IF v = undefined THEN v ELSE trim(v)

\* a lookup that filters on a path the schema does not have: never a match
UserFindOne_wrongPath(us, username) == 0

\* User.findOne({username}): index of the first match, 0 for null
UserFindOne(us, username) ==
    LET hits == {i \in 1..Len(us) : us[i].username = userSchemaUsername(username)}
    IN  IF hits = {} THEN 0 ELSE CHOOSE i \in hits : \A j \in hits : i <= j

\* User.findById(id): index of the document, 0 for null
UserFindById(us, id) ==
    LET hits == {i \in 1..Len(us) : us[i].id = id}
    IN  IF hits = {} THEN 0 ELSE CHOOSE i \in hits : \A j \in hits : i <= j

\* a save() on a collection whose unique index was never built
UserSaveError_noIndex(us, username, password) ==
    IF falsy(userSchemaUsername(username)) \/ falsy(password)
    THEN "ValidationError"
    ELSE "ok"

\* new User({username, password}).save(): "ok", or the error save() rejects with.
\* Validation (required) runs on the values the setters produced, before the
\* pre-save hook hashes the password; the unique index rejects the insert last.
UserSaveError(us, username, password) ==
    IF falsy(userSchemaUsername(username)) \/ falsy(password)
    THEN "ValidationError"
    ELSE IF \E i \in 1..Len(us) : us[i].username = userSchemaUsername(username)
         THEN "E11000"
         ELSE "ok"

\* the document save() inserts
UserDoc(us, username, password) ==
    [id |-> ObjectId(Len(us) + 1),
     username |-> userSchemaUsername(username),
     password |-> bcryptHash(password)]

-----------------------------------------------------------------------------
(* Bearer tokens.  jwt.sign binds a token to a user id for one hour; the   *)
(* server keeps no record of the tokens it issued.  A request carries no   *)
(* token, a token jwt.verify rejects ("invalid": a bad signature or an     *)
(* expiry in the past), or a token issued to a user.                       *)

noToken == [kind |-> "missing", id |-> noId]

\* jwt.sign({id}, JWT_SECRET, {expiresIn: "1h"})
jwtSign(id) == [kind |-> "valid", id |-> id]

\* tokens a client may present: none, one that does not verify, or one a
\* login of a registered user returned
Tokens(us) ==
    {noToken, [kind |-> "invalid", id |-> noId]}
        \cup {jwtSign(us[i].id) : i \in 1..Len(us)}

-----------------------------------------------------------------------------
(* Responses.  status 0 stands for "no response was sent".  A body field    *)
(* that the handler did not set is "" (message, error), noToken, noId or    *)
(* the empty sequence (matches, crushes); `body` names the kind of body.    *)

noResponse ==
    [status |-> 0, body |-> "none", message |-> "", error |-> "",
     token |-> noToken, userId |-> noId, matches |-> <<>>, crushes |-> <<>>]

\* res.status(s).json({message: m})
jsonMessage(s, m) == [noResponse EXCEPT !.status = s, !.body = "json", !.message = m]

\* res.status(500).json({error: err.message})
jsonError(e) == [noResponse EXCEPT !.status = 500, !.body = "json", !.error = e]

\* res.status(500).json({message: 'Server error', error: err.message})
jsonServerError(e) ==
    [noResponse EXCEPT !.status = 500, !.body = "json",
                       !.message = "Server error", !.error = e]

\* res.sendStatus(s): a text body, no JSON
sendStatus(s) == [noResponse EXCEPT !.status = s, !.body = "text"]

-----------------------------------------------------------------------------
(* Requests *)

noRequest ==
    [op |-> "none", username |-> undefined, password |-> undefined,
     name |-> undefined, userId |-> noId, token |-> noToken]

\* body fields a client may send as username
UsernameInputs == {undefined, <<>>, <<" ">>, <<"a">>, <<"b">>}

\* body fields a client may send as password at registration
PasswordInputs == {undefined, <<>>, <<" ">>, <<"p">>}

\* the server is between two exchanges
Idle == req = noRequest

Init ==
    /\ variant \in {"server", "part_000", "part_001"}
    /\ undefinedFilter \in {"omitted", "null"}
    /\ variant = "part_001" => undefinedFilter = "omitted"   \* never passes undefined
    /\ users = <<>>
    /\ crushes = <<>>
    /\ req = noRequest
    /\ res = noResponse
    /\ pending = <<>>

-----------------------------------------------------------------------------
(* POST /api/register *)

RegisterRequest(username, password) ==
    [noRequest EXCEPT !.op = "register", !.username = username, !.password = password]

\* crush-backend/server.js: trims both fields, no emptiness check
PostRegister_server(username, password) ==
    /\ variant = "server"
    /\ Idle
    /\ req' = RegisterRequest(username, password)
    /\ IF username = undefined \/ password = undefined
       THEN \* username.trim() / password.trim() throws inside the try
            /\ res' = jsonError("TypeError")
            /\ UNCHANGED users
       ELSE LET trimmedUsername == trim(username)
                trimmedPassword == trim(password)
                err == UserSaveError(users, trimmedUsername, trimmedPassword)
            IN  IF UserFindOne(users, trimmedUsername) # 0
                THEN /\ res' = jsonMessage(400, "User already exists")
                     /\ UNCHANGED users
                ELSE IF err # "ok"
                THEN /\ res' = jsonError(err)
                     /\ UNCHANGED users
                ELSE /\ users' = Append(users, UserDoc(users, trimmedUsername, trimmedPassword))
                     /\ res' = jsonMessage(200, "User registered successfully")
    /\ UNCHANGED <<pending, variant, undefinedFilter, crushes>>

\* part_000: rejects falsy fields, does not trim; the schema trims username
PostRegister_part000(username, password) ==
    /\ variant = "part_000"
    /\ Idle
    /\ req' = RegisterRequest(username, password)
    /\ LET err == UserSaveError(users, username, password)
       IN  IF falsy(username) \/ falsy(password)
           THEN /\ res' = jsonMessage(400, "Username and password required")
                /\ UNCHANGED users
           ELSE IF UserFindOne(users, username) # 0
           THEN /\ res' = jsonMessage(400, "Username already exists")
                /\ UNCHANGED users
           ELSE IF err # "ok"
           THEN /\ res' = jsonServerError(err)
                /\ UNCHANGED users
           ELSE /\ users' = Append(users, UserDoc(users, username, password))
                /\ res' = jsonMessage(201, "User created successfully")
    /\ UNCHANGED <<pending, variant, undefinedFilter, crushes>>

\* part_001: trims both fields and rejects the empty ones
PostRegister_part001(username, password) ==
    /\ variant = "part_001"
    /\ Idle
    /\ req' = RegisterRequest(username, password)
    /\ IF username = undefined \/ password = undefined
       THEN /\ res' = jsonError("TypeError")
            /\ UNCHANGED users
       ELSE LET trimmedUsername == trim(username)
                trimmedPassword == trim(password)
                err == UserSaveError(users, trimmedUsername, trimmedPassword)
            IN  IF falsy(trimmedUsername) \/ falsy(trimmedPassword)
                THEN /\ res' = jsonMessage(400, "Username and password are required")
                     /\ UNCHANGED users
                ELSE IF UserFindOne(users, trimmedUsername) # 0
                THEN /\ res' = jsonMessage(400, "User already exists")
                     /\ UNCHANGED users
                ELSE IF err # "ok"
                THEN /\ res' = jsonError(err)
                     /\ UNCHANGED users
                ELSE /\ users' = Append(users, UserDoc(users, trimmedUsername, trimmedPassword))
                     /\ res' = jsonMessage(200, "User registered successfully")
    /\ UNCHANGED <<pending, variant, undefinedFilter, crushes>>

-----------------------------------------------------------------------------
(* POST /api/login.  The handlers pass the body fields to findOne and to    *)
(* bcrypt.compare as they are; the clients modelled send two strings.       *)

LoginUsernames == {<<"a">>, <<"b">>, <<"c">>}

LoginPasswords == {<<"p">>, <<"q">>}

LoginRequest(username, password) ==
    [noRequest EXCEPT !.op = "login", !.username = username, !.password = password]

\* res.json({token, userId: user._id})
jsonLogin(user) ==
    [noResponse EXCEPT !.status = 200, !.body = "json",
                       !.token = jwtSign(user.id), !.userId = user.id]

login_server(us, username, password) ==
    LET user == UserFindOne(us, username)
    IN  IF user = 0
        THEN jsonMessage(400, "Invalid username")
        ELSE IF ~bcryptCompare(password, us[user].password)
        THEN jsonMessage(400, "Invalid password")
        ELSE jsonLogin(us[user])

PostLogin_server(username, password) ==
    /\ variant = "server"
    /\ Idle
    /\ req' = LoginRequest(username, password)
    /\ res' = login_server(users, username, password)
    /\ UNCHANGED <<pending, variant, undefinedFilter, users, crushes>>

login_part000(us, username, password) ==
    LET user == UserFindOne(us, username)
    IN  IF user = 0
        THEN jsonMessage(401, "Invalid credentials")
        ELSE IF ~bcryptCompare(password, us[user].password)
        THEN jsonMessage(401, "Invalid credentials")
        ELSE jsonLogin(us[user])

PostLogin_part000(username, password) ==
    /\ variant = "part_000"
    /\ Idle
    /\ req' = LoginRequest(username, password)
    /\ res' = login_part000(users, username, password)
    /\ UNCHANGED <<pending, variant, undefinedFilter, users, crushes>>

login_part001(us, username, password) ==
    LET user == UserFindOne(us, username)
    IN  IF user = 0
        THEN jsonMessage(400, "Invalid username or password")
        ELSE IF ~bcryptCompare(password, us[user].password)
        THEN jsonMessage(400, "Invalid username or password")
        ELSE jsonLogin(us[user])

PostLogin_part001(username, password) ==
    /\ variant = "part_001"
    /\ Idle
    /\ req' = LoginRequest(username, password)
    /\ res' = login_part001(users, username, password)
    /\ UNCHANGED <<pending, variant, undefinedFilter, users, crushes>>

-----------------------------------------------------------------------------
(* The Crush model: name {required}, userId {ObjectId, required}.  Only     *)
(* part_000 declares trim on name.  No unique index.                        *)

\* the trim setter of part_000's crushSchema.name
crushSchemaName_part000(v) == IF v = undefined THEN v ELSE trim(v)

\* new Crush({name, userId}).save(): "ok", or the validation error
CrushSaveError(name, userId) ==
    IF falsy(name) \/ userId = noId THEN "ValidationError" ELSE "ok"

\* Crush.find({userId})
CrushFind(cs, userId) == SelectSeq(cs, LAMBDA c : c.userId = userId)

\* a reverse lookup that compares the stored ObjectId with an uncast string:
\* no owner ever equals the one asked for
CrushFindOne_uncast(cs, policy, userId, name) ==
    \E i \in 1..Len(cs) :
        /\ cs[i].name = name
        /\ userId = noId
        /\ policy = "omitted"

\* Crush.findOne({userId, name}) # null.  A userId of undefined comes from
\* u?._id when no user was found: the filter then either loses the key
\* (any owner matches) or asks for userId null (required, so none matches).
CrushFindOne(cs, policy, userId, name) ==
    \E i \in 1..Len(cs) :
        /\ cs[i].name = name
        /\ IF userId = noId THEN policy = "omitted" ELSE cs[i].userId = userId

\* authenticateToken: 0 when next() is called, else the status sent
authenticateToken(token) ==
    IF token.kind = "missing" THEN 401
    ELSE IF token.kind # "valid" THEN 403
    ELSE 0

\* ObjectIds a client may put into a body or a path: those of the registered
\* users, and one that belongs to nobody
UserIds(us) == {unknownId} \cup {us[i].id : i \in 1..Len(us)}

\* body fields a client may send as crush name
NameInputs == {<<>>, <<" ">>, <<"a">>, <<"b">>, <<"c">>}

-----------------------------------------------------------------------------
(* POST /api/crush *)

CrushRequest(name, userId, token) ==
    [noRequest EXCEPT !.op = "crush", !.name = name, !.userId = userId, !.token = token]

\* res.status(s).json(crush)
jsonCrush(s, crush) ==
    [noResponse EXCEPT !.status = s, !.body = "json", !.crushes = <<crush>>]

\* crush-backend/server.js: owner from the body, no middleware, no try/catch:
\* a rejected save() leaves the request without a response
PostCrush_server(name, userId, token) ==
    /\ variant = "server"
    /\ Idle
    /\ req' = CrushRequest(name, userId, token)
    /\ LET newCrush == [name |-> name, userId |-> userId]
       IN  IF CrushSaveError(name, userId) # "ok"
           THEN /\ res' = noResponse
                /\ UNCHANGED crushes
           ELSE /\ Len(crushes) < MaxCrushes
                /\ crushes' = Append(crushes, newCrush)
                /\ res' = jsonCrush(200, newCrush)
    /\ UNCHANGED <<pending, variant, undefinedFilter, users>>

\* part_000: behind authenticateToken, owner from the token
PostCrush_part000(name, userId, token) ==
    /\ variant = "part_000"
    /\ Idle
    /\ req' = CrushRequest(name, userId, token)
    /\ LET newCrush == [name |-> crushSchemaName_part000(name), userId |-> token.id]
       IN  IF authenticateToken(token) # 0
           THEN /\ res' = sendStatus(authenticateToken(token))
                /\ UNCHANGED crushes
           ELSE IF falsy(name)
           THEN /\ res' = jsonMessage(400, "Name is required")
                /\ UNCHANGED crushes
           ELSE IF CrushSaveError(newCrush.name, newCrush.userId) # "ok"
           THEN /\ res' = jsonServerError(CrushSaveError(newCrush.name, newCrush.userId))
                /\ UNCHANGED crushes
           ELSE /\ Len(crushes) < MaxCrushes
                /\ crushes' = Append(crushes, newCrush)
                /\ res' = jsonCrush(201, newCrush)
    /\ UNCHANGED <<pending, variant, undefinedFilter, users>>

\* part_001: owner from the body, no middleware
PostCrush_part001(name, userId, token) ==
    /\ variant = "part_001"
    /\ Idle
    /\ req' = CrushRequest(name, userId, token)
    /\ LET newCrush == [name |-> name, userId |-> userId]
       IN  IF falsy(name) \/ userId = noId
           THEN /\ res' = jsonMessage(400, "Name and userId are required")
                /\ UNCHANGED crushes
           ELSE IF CrushSaveError(name, userId) # "ok"
           THEN /\ res' = jsonError(CrushSaveError(name, userId))
                /\ UNCHANGED crushes
           ELSE /\ Len(crushes) < MaxCrushes
                /\ crushes' = Append(crushes, newCrush)
                /\ res' = jsonCrush(201, newCrush)
    /\ UNCHANGED <<pending, variant, undefinedFilter, users>>

-----------------------------------------------------------------------------
(* GET /api/crush/:userId *)

ListRequest(userId, token) ==
    [noRequest EXCEPT !.op = "list", !.userId = userId, !.token = token]

\* res.json(crushes)
jsonCrushes(found) ==
    [noResponse EXCEPT !.status = 200, !.body = "json", !.crushes = found]

GetCrush_server(userId, token) ==
    /\ variant = "server"
    /\ Idle
    /\ req' = ListRequest(userId, token)
    /\ res' = jsonCrushes(CrushFind(crushes, userId))
    /\ UNCHANGED <<pending, variant, undefinedFilter, users, crushes>>

GetCrush_part000(userId, token) ==
    /\ variant = "part_000"
    /\ Idle
    /\ req' = ListRequest(userId, token)
    /\ res' = IF authenticateToken(token) # 0
              THEN sendStatus(authenticateToken(token))
              ELSE jsonCrushes(CrushFind(crushes, userId))
    /\ UNCHANGED <<pending, variant, undefinedFilter, users, crushes>>

GetCrush_part001(userId, token) ==
    /\ variant = "part_001"
    /\ Idle
    /\ req' = ListRequest(userId, token)
    /\ res' = jsonCrushes(CrushFind(crushes, userId))
    /\ UNCHANGED <<pending, variant, undefinedFilter, users, crushes>>

-----------------------------------------------------------------------------
(* GET /api/matches/:userId.  No variant puts a middleware on this route.   *)

MatchesRequest(userId, token) ==
    [noRequest EXCEPT !.op = "matches", !.userId = userId, !.token = token]

\* the names of a sequence of crushes, in order
Names(cs) == [i \in 1..Len(cs) |-> cs[i].name]

\* res.json({matches})
jsonMatches(matches) ==
    [noResponse EXCEPT !.status = 200, !.body = "json", !.matches = matches]

\* the loop of crush-backend/server.js and of part_000: the reverse lookup
\* runs whether or not crush.name resolved to a user (u?._id)
matches_reverse(us, cs, policy, userId) ==
    LET me == UserFindById(us, userId)
        myCrushes == CrushFind(cs, userId)
        target(crush) == UserFindOne(us, crush.name)
        targetId(crush) == IF target(crush) = 0 THEN noId ELSE us[target(crush)].id
        reverse(crush) == CrushFindOne(cs, policy, targetId(crush), us[me].username)
    IN  IF myCrushes # <<>> /\ me = 0
        THEN jsonError("TypeError")
        ELSE jsonMatches(Names(SelectSeq(myCrushes, reverse)))

\* the loop of part_001: the reverse lookup is guarded by if (user)
matches_guarded(us, cs, userId) ==
    LET me == UserFindById(us, userId)
        myCrushes == CrushFind(cs, userId)
        target(crush) == UserFindOne(us, crush.name)
        reverse(crush) ==
            /\ target(crush) # 0
            /\ CrushFindOne(cs, "null", us[target(crush)].id, us[me].username)
    IN  IF (\E i \in 1..Len(myCrushes) : target(myCrushes[i]) # 0) /\ me = 0
        THEN jsonError("TypeError")
        ELSE jsonMatches(Names(SelectSeq(myCrushes, reverse)))

\* a handler that hands each Interest out once: it deletes the requester's
\* Interests after reading them
GetMatches_server_consuming(userId, token) ==
    /\ variant = "server"
    /\ Idle
    /\ req' = MatchesRequest(userId, token)
    /\ res' = matches_reverse(users, crushes, undefinedFilter, userId)
    /\ crushes' = SelectSeq(crushes, LAMBDA c : c.userId # userId)
    /\ UNCHANGED <<pending, variant, undefinedFilter, users>>

GetMatches_server(userId, token) ==
    /\ variant = "server"
    /\ Idle
    /\ req' = MatchesRequest(userId, token)
    /\ res' = matches_reverse(users, crushes, undefinedFilter, userId)
    /\ UNCHANGED <<pending, variant, undefinedFilter, users, crushes>>

GetMatches_part000(userId, token) ==
    /\ variant = "part_000"
    /\ Idle
    /\ req' = MatchesRequest(userId, token)
    /\ res' = matches_reverse(users, crushes, undefinedFilter, userId)
    /\ UNCHANGED <<pending, variant, undefinedFilter, users, crushes>>

GetMatches_part001(userId, token) ==
    /\ variant = "part_001"
    /\ Idle
    /\ req' = MatchesRequest(userId, token)
    /\ res' = matches_guarded(users, crushes, userId)
    /\ UNCHANGED <<pending, variant, undefinedFilter, users, crushes>>

-----------------------------------------------------------------------------
(* The response ends the exchange (or, when none was sent, the client gives *)
(* up); the server then waits for the next request.                         *)
Finish ==
    /\ ~Idle
    /\ req' = noRequest
    /\ res' = noResponse
    /\ UNCHANGED <<pending, variant, undefinedFilter, users, crushes>>

Next ==
    \/ \E u \in UsernameInputs, p \in PasswordInputs : PostRegister_server(u, p)
    \/ \E u \in UsernameInputs, p \in PasswordInputs : PostRegister_part000(u, p)
    \/ \E u \in UsernameInputs, p \in PasswordInputs : PostRegister_part001(u, p)
    \/ \E u \in LoginUsernames, p \in LoginPasswords : PostLogin_server(u, p)
    \/ \E u \in LoginUsernames, p \in LoginPasswords : PostLogin_part000(u, p)
    \/ \E u \in LoginUsernames, p \in LoginPasswords : PostLogin_part001(u, p)
    \/ \E n \in NameInputs, i \in UserIds(users) \cup {noId}, t \in Tokens(users) :
           PostCrush_server(n, i, t)
    \/ \E n \in NameInputs, i \in UserIds(users) \cup {noId}, t \in Tokens(users) :
           PostCrush_part000(n, i, t)
    \/ \E n \in NameInputs, i \in UserIds(users) \cup {noId}, t \in Tokens(users) :
           PostCrush_part001(n, i, t)
    \/ \E i \in UserIds(users), t \in Tokens(users) : GetCrush_server(i, t)
    \/ \E i \in UserIds(users), t \in Tokens(users) : GetCrush_part000(i, t)
    \/ \E i \in UserIds(users), t \in Tokens(users) : GetCrush_part001(i, t)
    \/ \E i \in UserIds(users), t \in Tokens(users) : GetMatches_server(i, t)
    \/ \E i \in UserIds(users), t \in Tokens(users) : GetMatches_part000(i, t)
    \/ \E i \in UserIds(users), t \in Tokens(users) : GetMatches_part001(i, t)
    \/ Finish

Spec == Init /\ [][Next]_vars

-----------------------------------------------------------------------------
(* POST /api/register, request by request.  The handler awaits twice: the   *)
(* existence check (findOne) and the write (save).  Other requests run in   *)
(* between, so each await is a step of its own: the first one either        *)
(* answers at once or leaves the request in `pending`, the second one       *)
(* takes a pending request, saves and answers.  Here req and res are the    *)
(* exchange that was completed last.                                        *)

\* the sequence s without its k-th element
Without(s, k) == SubSeq(s, 1, k - 1) \o SubSeq(s, k + 1, Len(s))

\* crush-backend/server.js, up to and including the findOne
RegisterFindOne_server(username, password) ==
    /\ variant = "server"
    /\ IF username = undefined \/ password = undefined
       THEN /\ req' = RegisterRequest(username, password)
            /\ res' = jsonError("TypeError")
            /\ UNCHANGED pending
       ELSE IF UserFindOne(users, trim(username)) # 0
       THEN /\ req' = RegisterRequest(username, password)
            /\ res' = jsonMessage(400, "User already exists")
            /\ UNCHANGED pending
       ELSE /\ Len(pending) < MaxPending
            /\ pending' = Append(pending, [body |-> RegisterRequest(username, password),
                                           username |-> trim(username),
                                           password |-> trim(password)])
            /\ UNCHANGED <<req, res>>
    /\ UNCHANGED <<variant, undefinedFilter, users, crushes>>

\* crush-backend/server.js, from new User(...) on
RegisterSave_server(k) ==
    /\ variant = "server"
    /\ LET p == pending[k]
           err == UserSaveError(users, p.username, p.password)
       IN  /\ req' = p.body
           /\ IF err # "ok"
              THEN /\ res' = jsonError(err)
                   /\ UNCHANGED users
              ELSE /\ users' = Append(users, UserDoc(users, p.username, p.password))
                   /\ res' = jsonMessage(200, "User registered successfully")
    /\ pending' = Without(pending, k)
    /\ UNCHANGED <<variant, undefinedFilter, crushes>>

\* part_000, up to and including the findOne
RegisterFindOne_part000(username, password) ==
    /\ variant = "part_000"
    /\ IF falsy(username) \/ falsy(password)
       THEN /\ req' = RegisterRequest(username, password)
            /\ res' = jsonMessage(400, "Username and password required")
            /\ UNCHANGED pending
       ELSE IF UserFindOne(users, username) # 0
       THEN /\ req' = RegisterRequest(username, password)
            /\ res' = jsonMessage(400, "Username already exists")
            /\ UNCHANGED pending
       ELSE /\ Len(pending) < MaxPending
            /\ pending' = Append(pending, [body |-> RegisterRequest(username, password),
                                           username |-> username,
                                           password |-> password])
            /\ UNCHANGED <<req, res>>
    /\ UNCHANGED <<variant, undefinedFilter, users, crushes>>

\* part_000, from new User(...) on
RegisterSave_part000(k) ==
    /\ variant = "part_000"
    /\ LET p == pending[k]
           err == UserSaveError(users, p.username, p.password)
       IN  /\ req' = p.body
           /\ IF err # "ok"
              THEN /\ res' = jsonServerError(err)
                   /\ UNCHANGED users
              ELSE /\ users' = Append(users, UserDoc(users, p.username, p.password))
                   /\ res' = jsonMessage(201, "User created successfully")
    /\ pending' = Without(pending, k)
    /\ UNCHANGED <<variant, undefinedFilter, crushes>>

\* part_001, up to and including the findOne
RegisterFindOne_part001(username, password) ==
    /\ variant = "part_001"
    /\ IF username = undefined \/ password = undefined
       THEN /\ req' = RegisterRequest(username, password)
            /\ res' = jsonError("TypeError")
            /\ UNCHANGED pending
       ELSE IF falsy(trim(username)) \/ falsy(trim(password))
       THEN /\ req' = RegisterRequest(username, password)
            /\ res' = jsonMessage(400, "Username and password are required")
            /\ UNCHANGED pending
       ELSE IF UserFindOne(users, trim(username)) # 0
       THEN /\ req' = RegisterRequest(username, password)
            /\ res' = jsonMessage(400, "User already exists")
            /\ UNCHANGED pending
       ELSE /\ Len(pending) < MaxPending
            /\ pending' = Append(pending, [body |-> RegisterRequest(username, password),
                                           username |-> trim(username),
                                           password |-> trim(password)])
            /\ UNCHANGED <<req, res>>
    /\ UNCHANGED <<variant, undefinedFilter, users, crushes>>

\* part_001, from new User(...) on
RegisterSave_part001(k) ==
    /\ variant = "part_001"
    /\ LET p == pending[k]
           err == UserSaveError(users, p.username, p.password)
       IN  /\ req' = p.body
           /\ IF err # "ok"
              THEN /\ res' = jsonError(err)
                   /\ UNCHANGED users
              ELSE /\ users' = Append(users, UserDoc(users, p.username, p.password))
                   /\ res' = jsonMessage(200, "User registered successfully")
    /\ pending' = Without(pending, k)
    /\ UNCHANGED <<variant, undefinedFilter, crushes>>

NextRace ==
    \/ \E u \in UsernameInputs, p \in PasswordInputs : RegisterFindOne_server(u, p)
    \/ \E u \in UsernameInputs, p \in PasswordInputs : RegisterFindOne_part000(u, p)
    \/ \E u \in UsernameInputs, p \in PasswordInputs : RegisterFindOne_part001(u, p)
    \/ \E k \in 1..Len(pending) : RegisterSave_server(k)
    \/ \E k \in 1..Len(pending) : RegisterSave_part000(k)
    \/ \E k \in 1..Len(pending) : RegisterSave_part001(k)

\* concurrent registrations
SpecRace == Init /\ [][NextRace]_vars

-----------------------------------------------------------------------------
(* Vocabulary of the properties *)

\* some element of the sequence s equals x
InSeq(x, s) == \E k \in 1..Len(s) : s[k] = x

\* the User with this id owns an Interest with this targetName
Owns(id, targetName) ==
    \E k \in 1..Len(crushes) : crushes[k].userId = id /\ crushes[k].name = targetName

\* some User has this username
Registered(username) == \E i \in 1..Len(users) : users[i].username = username

\* users[i] and users[j] each own an Interest naming the other's username
Mutual(i, j) ==
    /\ Owns(users[i].id, users[j].username)
    /\ Owns(users[j].id, users[i].username)

-----------------------------------------------------------------------------
\* C1: match symmetry.  Whenever two registered Users A and B each own an
\* Interest whose targetName is the other's username, a matches request for
\* A.id answers 200 with B.username in the list (and, A and B ranging over
\* all Users, a request for B.id answers with A.username).
C1_MatchSymmetry ==
    req.op = "matches" =>
        \A i, j \in 1..Len(users) :
            (req.userId = users[i].id /\ Mutual(i, j))
                => res.status = 200 /\ InSeq(users[j].username, res.matches)

\* two different Users name each other and one of them has asked for matches
C1_Witness ==
    /\ req.op = "matches"
    /\ \E i, j \in 1..Len(users) :
           /\ i # j
           /\ req.userId = users[i].id
           /\ Mutual(i, j)
           /\ InSeq(users[j].username, res.matches)

\* C2: a targetName that is no registered username never appears in the
\* matches of its owner: every name of a 200 matches response is a username.
C2_OnlyRegisteredNames ==
    (req.op = "matches" /\ res.status = 200) =>
        \A k \in 1..Len(res.matches) : Registered(res.matches[k])

\* C3: for a registered User the matches response is exactly the sequence of
\* the targetNames of listByOwner(userId), in order and with repetitions, that
\* are usernames of Users owning an Interest in the requester's username.
C3_ExactSubsequence ==
    (req.op = "matches" /\ UserFindById(users, req.userId) # 0) =>
        LET me == users[UserFindById(users, req.userId)]
            reciprocated(c) ==
                \E j \in 1..Len(users) :
                    users[j].username = c.name /\ Owns(users[j].id, me.username)
        IN  /\ res.status = 200
            /\ res.matches = Names(SelectSeq(CrushFind(crushes, req.userId), reciprocated))

\* the messages by which the variants report a taken username
ConflictMessages == {"User already exists", "Username already exists"}

\* C4: registering (two strings) with a username that already belongs to a
\* User answers 400, creates no User and leaves the User collection as it
\* was; with a password that is not blank the message is the Conflict one.
C4_RegisterConflict ==
    [][(/\ req'.op = "register"
        /\ req'.username # undefined
        /\ req'.password # undefined
        /\ Registered(req'.username))
       => /\ res'.status = 400
          /\ users' = users
          /\ (trim(req'.password) # <<>> => res'.message \in ConflictMessages)]_vars

\* a register request for a username that was taken has been refused
C4_Witness ==
    /\ req.op = "register"
    /\ Registered(req.username)
    /\ req.password = <<"p">>
    /\ res.status = 400
    /\ res.message \in ConflictMessages

\* the response of the deployed variant to a login
login(us, username, password) ==
    CASE variant = "server" -> login_server(us, username, password)
      [] variant = "part_000" -> login_part000(us, username, password)
      [] variant = "part_001" -> login_part001(us, username, password)

\* C5: a failed login gets the same response whether the username is unknown
\* or the password is wrong: every login that would fail in this state gets
\* the response the failed login just served got.
C5_UniformLoginFailure ==
    (req.op = "login" /\ res.status # 200) =>
        \A u \in LoginUsernames, p \in LoginPasswords :
            login(users, u, p).status # 200 => login(users, u, p) = res

\* C6: a matches request for a userId that resolves to no User fails with
\* NotFound (404); it gets no success payload.
C6_UnknownUserNotFound ==
    (req.op = "matches" /\ UserFindById(users, req.userId) = 0) => res.status = 404

\* C7: the Interest a POST /api/crush created is owned by the User the
\* presented bearer token is bound to.
C7_OwnerFromToken ==
    (req.op = "crush" /\ res.status \in {200, 201}) =>
        /\ req.token.kind = "valid"
        /\ crushes[Len(crushes)].userId = req.token.id

\* C8: POST /api/crush, GET /api/crush/:userId and GET /api/matches/:userId
\* answer a request without a valid bearer token with 401 or 403 and leave
\* the Interest Store alone.
C8_TokenRequired ==
    [][(req'.op \in {"crush", "list", "matches"} /\ req'.token.kind # "valid")
       => res'.status \in {401, 403} /\ crushes' = crushes]_vars

\* C9: register with a username or a password that is empty after trimming
\* answers 400 and creates no User.
C9_RegisterBlankRejected ==
    [][(/\ req'.op = "register"
        /\ req'.username # undefined
        /\ req'.password # undefined
        /\ (trim(req'.username) = <<>> \/ trim(req'.password) = <<>>))
       => res'.status = 400 /\ users' = users]_vars

\* the owner a POST /api/crush request names, the way the deployed variant
\* reads it: from the verified token (part_000) or from the body
OwnerOf(r) ==
    IF variant = "part_000"
    THEN (IF r.token.kind = "valid" THEN r.token.id ELSE noId)
    ELSE r.userId

\* C10: adding an Interest (the owner given) with a targetName that is empty
\* after trimming answers 400 and creates nothing; with any other targetName
\* it succeeds and appends one Interest, also when the owner recorded the
\* same name before.
C10_AddBlankRejected ==
    [][(req'.op = "crush" /\ OwnerOf(req') # noId)
       => IF trim(req'.name) = <<>>
          THEN res'.status = 400 /\ crushes' = crushes
          ELSE /\ res'.status \in {200, 201}
               /\ crushes' = Append(crushes, [name |-> req'.name, userId |-> OwnerOf(req')])]_vars

\* the response of the deployed variant to a matches request
matchesOf(us, cs, userId) ==
    CASE variant = "server" -> matches_reverse(us, cs, undefinedFilter, userId)
      [] variant = "part_000" -> matches_reverse(us, cs, undefinedFilter, userId)
      [] variant = "part_001" -> matches_guarded(us, cs, userId)

\* C11: resolveMatches is read-only and idempotent.  Serving a matches request
\* changes neither the User nor the Crush collection, and a second request
\* for the same userId, served on the collections the first one left behind,
\* gets the response the first one got.
C11_ReadOnlyIdempotent ==
    [][req'.op = "matches"
       => /\ users' = users
          /\ crushes' = crushes
          /\ matchesOf(users', crushes', req'.userId) = res']_vars

\* a matches request of a User with Interests has been answered with a
\* non-empty list, and asking again would give the same list
C11_Witness ==
    /\ req.op = "matches"
    /\ res.status = 200
    /\ res.matches # <<>>
    /\ CrushFind(crushes, req.userId) # <<>>
    /\ matchesOf(users, crushes, req.userId) = res

\* C12: the matches of a User never hold that User's own username, also when
\* the User recorded an Interest naming it.
C12_NoSelfMatch ==
    (req.op = "matches" /\ res.status = 200 /\ UserFindById(users, req.userId) # 0)
        => ~InSeq(users[UserFindById(users, req.userId)].username, res.matches)

\* C13: no two Users share a username, in every state reachable when register
\* requests interleave between their existence check and their write.
C13_UniqueUsernames ==
    \A i, j \in 1..Len(users) : i # j => users[i].username # users[j].username

\* two requests for one username both passed the existence check; one was
\* saved and the unique index refused the other
C13_Witness ==
    /\ req.op = "register"
    /\ res.status = 500
    /\ res.error = "E11000"
    /\ Registered(trim(req.username))

\* C14: every request that was served got a response, and the response is a
\* success payload or an error status with a JSON body that carries a message
\* (also when the store operation of the handler failed).  The text of the
\* error counts as the message whether the body has it as `message` or `error`.
C14_OneWellFormedResponse ==
    req.op # "none"
        => /\ res.status # 0
           /\ \/ res.status \in 200..299
              \/ res.body = "json" /\ (res.message # "" \/ res.error # "")

\* C15: matches are monotonic: a name that a successful matches request for a
\* registered user would return before a step is still returned by a
\* successful matches request for that user after the step.
C15_MatchesMonotonic ==
    [][\A id \in UserIds(users) :
         LET before == matchesOf(users, crushes, id)
             after == matchesOf(users', crushes', id)
         IN  (UserFindById(users, id) # 0 /\ before.status = 200 /\ after.status = 200)
                 => \A k \in 1..Len(before.matches) :
                        InSeq(before.matches[k], after.matches)]_vars

====
